---- MODULE Spec2Model ----
(***************************************************************************)
(* Model of unpack.py: the batch extractor built on the 7z command line    *)
(* tool.  File names are sequences of one-character strings, so that the   *)
(* classifier, the first-volume resolver and the directory-name rules are  *)
(* computed character by character as the Python code computes them.       *)
(* The run is modelled with the output base directory given by -o, i.e.    *)
(* the input directory holds the archive files and the output base         *)
(* directory holds the extraction directories.                             *)
(***************************************************************************)
EXTENDS Integers, Sequences, FiniteSets, TLC

----------------------------------------------------------------------------
(* Bounds of the model *)

\* most regular files in the input directory
MaxFiles == 2
\* largest worker-pool limit (-t / cpu count)
MaxWorkers == 2
\* number of times main() is run one after the other on the same disk
MaxRuns == 2

----------------------------------------------------------------------------
(* Strings *)

Digits == {"0", "1", "2", "3", "4", "5", "6", "7", "8", "9"}

\* code-point order of the characters that occur in the model's file names
CharOrder ==
    << ".", "0", "1", "2", "3", "4", "5", "6", "7", "8", "9",
       "A", "B", "I", "P", "R", "Z", "_",
       "a", "b", "c", "i", "m", "n", "o", "p", "r", "t", "u", "x", "z" >>

Ord(c) == CHOOSE i \in 1..Len(CharOrder) : CharOrder[i] = c

\* str.lower() on one character
LowerChar(c) ==
    CASE c = "A" -> "a"
      [] c = "B" -> "b"
      [] c = "I" -> "i"
      [] c = "P" -> "p"
      [] c = "R" -> "r"
      [] c = "Z" -> "z"
      [] OTHER -> c

\* str.lower()
Lower(s) == [i \in 1..Len(s) |-> LowerChar(s[i])]

\* s[:n] for 0 <= n
Take(s, n) == IF n >= Len(s) THEN s ELSE SubSeq(s, 1, n)

\* s[n:] for 0 <= n (0-based start)
Drop(s, n) == IF n >= Len(s) THEN << >> ELSE SubSeq(s, n + 1, Len(s))

\* s[:-n] for n > 0
DropLast(s, n) == IF n >= Len(s) THEN << >> ELSE SubSeq(s, 1, Len(s) - n)

\* str.endswith
EndsWith(s, suf) ==
    /\ Len(suf) <= Len(s)
    /\ SubSeq(s, Len(s) - Len(suf) + 1, Len(s)) = suf

\* sub occurs in s at the 0-based position i
OccursAt(s, sub, i) ==
    /\ i >= 0
    /\ i + Len(sub) <= Len(s)
    /\ SubSeq(s, i + 1, i + Len(sub)) = sub

\* `sub in s`
Contains(s, sub) == \E i \in 0..Len(s) : OccursAt(s, sub, i)

\* str.rfind: the highest 0-based position of sub in s, -1 when absent
RFind(s, sub) ==
    IF Contains(s, sub)
    THEN CHOOSE i \in 0..Len(s) :
            /\ OccursAt(s, sub, i)
            /\ \A j \in 0..Len(s) : OccursAt(s, sub, j) => j <= i
    ELSE -1

\* str.isdigit: non-empty and all digits
IsDigit(s) == Len(s) > 0 /\ \A i \in 1..Len(s) : s[i] \in Digits

DigitVal(c) == Ord(c) - Ord("0")

\* int(s) for a string of digits
RECURSIVE ToInt(_)
ToInt(s) ==
    IF Len(s) = 0 THEN 0
    ELSE 10 * ToInt(SubSeq(s, 1, Len(s) - 1)) + DigitVal(s[Len(s)])

\* length of the longest run of digits that ends s (what a greedy \d+$ takes)
RECURSIVE TrailingDigits(_)
TrailingDigits(s) ==
    IF Len(s) > 0 /\ s[Len(s)] \in Digits
    THEN 1 + TrailingDigits(SubSeq(s, 1, Len(s) - 1))
    ELSE 0

\* length of the run of digits that starts at the 0-based position i of s
RECURSIVE DigitRunAt(_, _)
DigitRunAt(s, i) ==
    IF i < Len(s) /\ s[i + 1] \in Digits THEN 1 + DigitRunAt(s, i + 1) ELSE 0

\* lexicographic comparison of two strings by code point: a < b
RECURSIVE StrLess(_, _)
StrLess(a, b) ==
    IF Len(b) = 0 THEN FALSE
    ELSE IF Len(a) = 0 THEN TRUE
    ELSE IF a[1] = b[1] THEN StrLess(Tail(a), Tail(b))
    ELSE Ord(a[1]) < Ord(b[1])

\* the suffix  <lit><digits>  at the end of s, matched ignoring case:
\* the length of the match of  lit\d+$ , 0 when s does not end that way
LitDigitsSuffix(s, lit) ==
    LET k == TrailingDigits(s)
        head == DropLast(s, k)
    IN  IF k > 0 /\ EndsWith(Lower(head), lit) THEN Len(lit) + k ELSE 0

S_zip == << ".", "z", "i", "p" >>
S_7z == << ".", "7", "z" >>
S_rar == << ".", "r", "a", "r" >>
S_zipDot == << ".", "z", "i", "p", "." >>
S_7zDot == << ".", "7", "z", "." >>
S_rarDot == << ".", "r", "a", "r", "." >>
S_part == << ".", "p", "a", "r", "t" >>
S_dotz == << ".", "z" >>
S_001 == << ".", "0", "0", "1" >>
S_z01 == << ".", "z", "0", "1" >>
S_uzip == << "_", "z", "i", "p" >>
S_out_tmp == << ".", "o", "u", "t", "_", "t", "m", "p" >>
S_dot == << "." >>

\* supported_extensions
supported_extensions == << S_zip, S_7z, S_rar >>

\* the '.zip.', '.7z.', '.rar.' list of is_volume_part and main
dotted_extensions == << S_zipDot, S_7zDot, S_rarDot >>

\* s ends with '.' and exactly three digits:  re.search(r'\.\d{3}$', s)
EndsDot3Digits(s) ==
    /\ Len(s) >= 4
    /\ s[Len(s) - 3] = "."
    /\ IsDigit(SubSeq(s, Len(s) - 2, Len(s)))

----------------------------------------------------------------------------
(* is_volume_part *)

NotVolume(filename) == [isVol |-> FALSE, num |-> 0, base |-> filename]

\* format 1 for one of '.zip.', '.7z.', '.rar.': the text after its last
\* occurrence is all digits
Format1Hit(filename, ext) ==
    LET lower_name == Lower(filename)
        idx == RFind(lower_name, ext)
    IN  /\ Contains(lower_name, ext)
        /\ IsDigit(Drop(lower_name, idx + Len(ext)))

Format1Result(filename, ext) ==
    LET lower_name == Lower(filename)
        idx == RFind(lower_name, ext)
    IN  [isVol |-> TRUE,
         num |-> ToInt(Drop(lower_name, idx + Len(ext))),
         base |-> Take(filename, idx + Len(ext) - 1)]

\* re.match(r'(.+)\.part(\d+)\.(rar|zip|7z)$', s): the 0-based start of
\* group 2 when s matches with the extension ext, -1 otherwise
PartMatchExt(s, ext) ==
    LET head == DropLast(s, Len(ext))
        k == TrailingDigits(head)
        pre == DropLast(head, k)
    IN  IF /\ EndsWith(s, ext)
           /\ k > 0
           /\ EndsWith(pre, S_part)
           /\ Len(pre) - Len(S_part) >= 1
        THEN Len(pre)
        ELSE -1

PartMatchStart(s) ==
    IF PartMatchExt(s, S_rar) >= 0 THEN PartMatchExt(s, S_rar)
    ELSE IF PartMatchExt(s, S_zip) >= 0 THEN PartMatchExt(s, S_zip)
    ELSE PartMatchExt(s, S_7z)

\* the digits of group 2 of the part-style match
PartMatchDigits(s) ==
    LET st == PartMatchStart(s) IN SubSeq(s, st + 1, st + DigitRunAt(s, st))

\* re.match(r'(.+)\.z(\d+)$', s): the length of group 1, -1 without a match
ZMatchBaseLen(s) ==
    LET k == TrailingDigits(s)
        head == DropLast(s, k)
    IN  IF k > 0 /\ EndsWith(head, S_dotz) /\ Len(head) - Len(S_dotz) >= 1
        THEN Len(head) - Len(S_dotz)
        ELSE -1

is_volume_part(filename) ==
    LET lower_name == Lower(filename)
    IN  IF Format1Hit(filename, S_zipDot) THEN Format1Result(filename, S_zipDot)
        ELSE IF Format1Hit(filename, S_7zDot) THEN Format1Result(filename, S_7zDot)
        ELSE IF Format1Hit(filename, S_rarDot) THEN Format1Result(filename, S_rarDot)
        ELSE IF PartMatchStart(lower_name) >= 0
        THEN [isVol |-> TRUE,
              num |-> ToInt(PartMatchDigits(lower_name)),
              base |-> Take(filename, PartMatchStart(lower_name) - 5)]
        ELSE IF ZMatchBaseLen(lower_name) >= 0
        THEN [isVol |-> TRUE,
              num |-> ToInt(Drop(lower_name, Len(lower_name) - TrailingDigits(lower_name))),
              base |-> Take(lower_name, ZMatchBaseLen(lower_name))]
        ELSE IF EndsDot3Digits(lower_name)
        THEN [isVol |-> TRUE,
              num |-> ToInt(Drop(lower_name, Len(lower_name) - 3)),
              base |-> DropLast(filename, 4)]
        ELSE NotVolume(filename)

----------------------------------------------------------------------------
(* get_first_volume *)

\* re.search(r'\.part(\d+)\.', s): s matches at the 0-based position i
PartSearchAt(s, i) ==
    LET k == DigitRunAt(s, i + Len(S_part))
    IN  /\ OccursAt(s, S_part, i)
        /\ k > 0
        /\ OccursAt(s, S_dot, i + Len(S_part) + k)

\* number of digits of the leftmost match, 0 without a match
PartSearchDigits(s) ==
    IF \E i \in 0..Len(s) : PartSearchAt(s, i)
    THEN LET i == CHOOSE i \in 0..Len(s) :
                    /\ PartSearchAt(s, i)
                    /\ \A j \in 0..Len(s) : PartSearchAt(s, j) => i <= j
         IN  DigitRunAt(s, i + Len(S_part))
    ELSE 0

\* '1'.zfill(n)
RECURSIVE OneZfill(_)
OneZfill(n) == IF n <= 1 THEN << "1" >> ELSE << "0" >> \o OneZfill(n - 1)

\* filename.split('.')[-1]
LastDotField(filename) == Drop(filename, RFind(filename, S_dot) + 1)

\* lower_filename.endswith(('.z01', ..., '.z99'))
EndsZ01to99(s) ==
    /\ Len(s) >= 4
    /\ SubSeq(s, Len(s) - 3, Len(s) - 2) = S_dotz
    /\ IsDigit(SubSeq(s, Len(s) - 1, Len(s)))
    /\ SubSeq(s, Len(s) - 1, Len(s)) # << "0", "0" >>

first_volume_candidates(filename) ==
    LET lower_filename == Lower(filename)
        base_name == is_volume_part(filename).base
        num_digits == PartSearchDigits(lower_filename)
        ext == LastDotField(filename)
        c1 == IF \E k \in 1..3 : Contains(lower_filename, dotted_extensions[k])
              THEN << base_name \o S_001 >> ELSE << >>
        c2 == IF Contains(lower_filename, S_part) /\ num_digits > 0
              THEN << base_name \o S_part \o OneZfill(num_digits) \o S_dot \o ext >>
                   \o (IF num_digits > 1
                       THEN << base_name \o S_part \o << "1" >> \o S_dot \o ext >>
                       ELSE << >>)
              ELSE << >>
        c3 == IF EndsZ01to99(lower_filename) \/ ZMatchBaseLen(lower_filename) >= 0
              THEN << base_name \o S_z01, base_name \o S_zip >> ELSE << >>
        c4 == IF EndsDot3Digits(lower_filename)
              THEN << base_name \o S_001 >> ELSE << >>
    IN  c1 \o c2 \o c3 \o c4

\* the file name of the path get_first_volume returns, given the
\* classification v of filename and its candidate list; files is the content
\* of target_directory (os.path.exists of a candidate)
FirstVolumeAmong(filename, v, cands, files) ==
    LET hits == {i \in 1..Len(cands) : cands[i] \in files}
    IN  IF ~v.isVol THEN filename
        ELSE IF v.num = 1 THEN filename
        ELSE IF hits # {}
        THEN cands[CHOOSE i \in hits : \A j \in hits : i <= j]
        ELSE filename

get_first_volume(filename, files) ==
    FirstVolumeAmong(filename, is_volume_part(filename),
                     first_volume_candidates(filename), files)

----------------------------------------------------------------------------
(* main: candidacy and extraction directory name *)

\* lines 258-272 of main: is the file an archive candidate
is_archive(filename) ==
    LET lower_filename == Lower(filename)
    IN  \/ \E k \in 1..3 : EndsWith(lower_filename, supported_extensions[k])
        \/ \E k \in 1..3 : Contains(lower_filename, dotted_extensions[k])
        \/ EndsZ01to99(lower_filename)
        \/ EndsDot3Digits(lower_filename)
        \/ /\ Contains(lower_filename, S_part)
           /\ \E k \in 1..3 : EndsWith(lower_filename, supported_extensions[k])
        \/ is_volume_part(filename).isVol

\* re.sub(r'\.(zip|7z|rar)\.\d+$', '', s, flags=re.IGNORECASE)
StripExtDigits(s) ==
    LET k == TrailingDigits(s)
        head == DropLast(s, k)
        lowhead == Lower(head)
    IN  IF k > 0 /\ EndsWith(lowhead, S_zipDot) THEN DropLast(head, Len(S_zipDot))
        ELSE IF k > 0 /\ EndsWith(lowhead, S_7zDot) THEN DropLast(head, Len(S_7zDot))
        ELSE IF k > 0 /\ EndsWith(lowhead, S_rarDot) THEN DropLast(head, Len(S_rarDot))
        ELSE s

\* lines 297-305 of main: the leaf name of the extraction directory
extract_name(target_filename) ==
    LET low == Lower(target_filename)
        e1 == IF EndsWith(low, S_rar) \/ EndsWith(low, S_zip)
              THEN DropLast(target_filename, 4)
              ELSE IF EndsWith(low, S_7z) THEN DropLast(target_filename, 3)
              ELSE target_filename
        e2 == DropLast(e1, LitDigitsSuffix(e1, S_part))
        e3 == DropLast(e2, LitDigitsSuffix(e2, S_dotz))
        e4 == StripExtDigits(e3)
        e5 == IF EndsDot3Digits(e4) THEN DropLast(e4, 4) ELSE e4
        e6 == IF EndsWith(Lower(e5), S_uzip) THEN DropLast(e5, 4) ELSE e5
    IN  e6

\* os.path.splitext(filename)[1].lower() or '(no extension)', line 275
S_noext == << "(", ")" >>

ignored_ext(filename) ==
    LET i == RFind(filename, S_dot)
        leading == \A j \in 1..i : filename[j] = "."
    IN  IF i < 0 \/ leading THEN S_noext ELSE Lower(Drop(filename, i))

----------------------------------------------------------------------------
(* The input directory and the output base directory *)

N_a_zip == << "a", ".", "z", "i", "p" >>
N_a_z01 == << "a", ".", "z", "0", "1" >>
N_a_z02 == << "a", ".", "z", "0", "2" >>
N_a_tmp_zip == << "a" >> \o S_out_tmp \o S_zip
N_b_001 == << "b", ".", "7", "z", ".", "0", "0", "1" >>
N_b_002 == << "b", ".", "7", "z", ".", "0", "0", "2" >>
N_txt == << "n", ".", "t", "x", "t" >>
N_dot_zip == S_zip

\* the regular files the input directory may hold
Catalogue ==
    { N_a_zip, N_a_z01, N_a_z02, N_a_tmp_zip, N_b_001, N_b_002, N_txt, N_dot_zip }

\* names met by the Job Builder alone: a name with an inner archive
\* extension and no volume number, and a generic three-digit volume whose
\* base name is the base name of a.z01
N_a_7z_x == << "a", ".", "7", "z", ".", "x" >>
N_a_001 == << "a", ".", "0", "0", "1" >>
\* a plain archive whose name without the extension is the token '_zip'
N_uzip_zip == S_uzip \o S_zip

\* the regular files the input directory may hold when only the scan is run
BuilderCatalogue == Catalogue \cup { N_a_7z_x, N_a_001, N_uzip_zip }

\* the directory of output_base_dir itself: os.path.join(output_base_dir, '')
BaseDir == << >>

\* extract_dir + ".out_tmp", line 42
tmp_extract_dir(extract_dir) == extract_dir \o S_out_tmp

\* the classifier, the candidate lists, the directory names and the archive
\* test, computed once for every name of the catalogue
VolumeOf == [n \in BuilderCatalogue |-> is_volume_part(n)]
CandidatesOf == [n \in BuilderCatalogue |-> first_volume_candidates(n)]
ExtractNameOf == [n \in BuilderCatalogue |-> extract_name(n)]
IsArchiveOf == [n \in BuilderCatalogue |-> is_archive(n)]
IgnoredExtOf == [n \in BuilderCatalogue |-> ignored_ext(n)]
SortKeyOf == [n \in BuilderCatalogue |-> Lower(n)]

\* every directory path of the output base directory a run can touch,
\* named by its leaf
Leaves ==
    LET ds == {ExtractNameOf[n] : n \in {c \in BuilderCatalogue : IsArchiveOf[c]}}
    IN  {BaseDir} \cup ds \cup {tmp_extract_dir(d) : d \in ds}

\* a directory: the files the tool wrote into it, named by the run and the
\* job that wrote them, and whether it holds the file .zipp_done
Absent == [exists |-> FALSE, files |-> {}, marker |-> FALSE]
EmptyDir == [exists |-> TRUE, files |-> {}, marker |-> FALSE]

\* os.path.exists(path)
Exists(d, path) == d[path].exists

\* os.path.exists(os.path.join(path, ".zipp_done"))
MarkerExists(d, path) == d[path].exists /\ d[path].marker

\* shutil.rmtree(path); the caller has checked that path exists
RmTree(d, path) ==
    IF path = BaseDir
    THEN [p \in DOMAIN d |-> Absent]
    ELSE [d EXCEPT ![path] = Absent]

\* os.makedirs(path, exist_ok=True): the parents are created too
MakeDirs(d, path) ==
    [p \in DOMAIN d |->
        IF (p = path \/ p = BaseDir) /\ ~d[p].exists THEN EmptyDir ELSE d[p]]

\* os.rename(src, dst) succeeds: src exists, dst is not the directory that
\* holds src, and dst is absent or an empty directory
CanRename(d, src, dst) ==
    /\ d[src].exists
    /\ dst # BaseDir
    /\ src # BaseDir
    /\ \/ ~d[dst].exists
       \/ d[dst].files = {} /\ ~d[dst].marker

Rename(d, src, dst) == [d EXCEPT ![dst] = d[src], ![src] = Absent]

\* open(os.path.join(path, ".zipp_done"), 'w') and write
WriteMarker(d, path) == [d EXCEPT ![path].marker = TRUE]

\* the tool extracts into path: it creates the directory when it is missing
ToolOutput(d, path, tag) ==
    LET m == MakeDirs(d, path)
    IN  [m EXCEPT ![path].files = @ \cup {tag}]

----------------------------------------------------------------------------
(* State *)

VARIABLES
    inputFiles,     \* names of the regular files of target_directory
    disk,           \* the directories of output_base_dir, by leaf name
    run,            \* how many times main() has been started
    phase,          \* where main() is
    maxWorkers,     \* max_workers, line 401-405
    toScan,         \* entries of os.listdir not yet visited
    archives,       \* archives_to_process
    processed,      \* processed_base_names
    skipped,        \* skipped_count
    ignored_files,  \* ignored_files: extension -> count
    volume_counts,  \* volume_counts: base name -> count
    exec,           \* per job: the state of its future and of its worker
    collected,      \* futures as_completed has yielded
    failed,         \* failed_archives, as job indices in the order appended
    cleanupPos,     \* position of the cleanup loop in failed_archives
    prevAllOk,      \* history: the run before this one built jobs, ran them
                    \* all and none failed
    call            \* a call of is_volume_part or get_first_volume made on
                    \* its own: the arguments and the value returned

vars == << inputFiles, disk, run, phase, maxWorkers, toScan, archives,
           processed, skipped, ignored_files, volume_counts, exec, collected,
           failed, cleanupPos, prevAllOk, call >>

scanVars == << toScan, archives, processed, skipped, ignored_files, volume_counts >>

Jobs == 1..Len(archives)

\* exit codes the external tool is given in the model: success and failure
ExitCodes == {0, 2}

NoFn == [x \in {} |-> 0]

\* no function is being called on its own
NoCall ==
    [fn |-> "none", filename |-> << >>, files |-> {}, returned |-> FALSE,
     vol |-> NotVolume(<< >>), path |-> << >>]

Init ==
    /\ inputFiles \in {fs \in SUBSET Catalogue : Cardinality(fs) <= MaxFiles}
    /\ disk = [p \in Leaves |-> IF p = BaseDir THEN EmptyDir ELSE Absent]
    /\ run = 1
    /\ phase = "scan"
    /\ maxWorkers \in 1..MaxWorkers
    /\ toScan = inputFiles
    /\ archives = << >>
    /\ processed = {}
    /\ skipped = 0
    /\ ignored_files = NoFn
    /\ volume_counts = NoFn
    /\ exec = << >>
    /\ collected = {}
    /\ failed = << >>
    /\ cleanupPos = 0
    /\ prevAllOk = FALSE
    /\ call = NoCall

\* d.get(k, 0) + 1 stored back under k
Bump(f, k) ==
    [x \in DOMAIN f \cup {k} |->
        IF x = k THEN (IF k \in DOMAIN f THEN f[k] + 1 ELSE 1) ELSE f[x]]

----------------------------------------------------------------------------
(* main: the scan loop, lines 250-321 *)

\* the tuple appended to archives_to_process for filename, lines 293-317
NewJob(filename, files) ==
    LET v == VolumeOf[filename]
        target_filename ==
            FirstVolumeAmong(filename, v, CandidatesOf[filename], files)
    IN  [target |-> target_filename,
         dir |-> ExtractNameOf[target_filename],
         isVol |-> v.isVol,
         base |-> v.base]

\* mutant: the check of processed_base_names is dropped
NeverProcessed(base_name, done) == FALSE

\* line 291: the base name has been handled already
AlreadyProcessed(base_name, done) == base_name \in done

\* one iteration of the loop over os.listdir, for an entry in any order
ScanFile(filename) ==
    /\ phase = "scan"
    /\ filename \in toScan
    /\ toScan' = toScan \ {filename}
    /\ IF ~IsArchiveOf[filename]
       THEN /\ ignored_files' = Bump(ignored_files, IgnoredExtOf[filename])
            /\ UNCHANGED << archives, processed, skipped, volume_counts >>
       ELSE LET v == VolumeOf[filename]
                job == NewJob(filename, inputFiles)
            IN  /\ volume_counts' =
                       IF v.isVol THEN Bump(volume_counts, v.base) ELSE volume_counts
                /\ IF AlreadyProcessed(v.base, processed)
                   THEN UNCHANGED << archives, processed, skipped >>
                   ELSE IF MarkerExists(disk, job.dir)
                   THEN /\ skipped' = skipped + 1
                        /\ processed' = processed \cup {v.base}
                        /\ UNCHANGED archives
                   ELSE /\ archives' = Append(archives, job)
                        /\ processed' = processed \cup {v.base}
                        /\ UNCHANGED skipped
                /\ UNCHANGED ignored_files
    /\ UNCHANGED << inputFiles, disk, run, phase, maxWorkers, exec, collected,
                    failed, cleanupPos, prevAllOk, call >>

\* the sort key of line 333: (is_volume, basename.lower()); a sorts before b
KeyLess(a, b) ==
    \/ ~a.isVol /\ b.isVol
    \/ a.isVol = b.isVol /\ StrLess(SortKeyOf[a.target], SortKeyOf[b.target])

\* list.sort is stable: x goes after every element that does not sort after it
RECURSIVE InsertJob(_, _)
InsertJob(sorted, x) ==
    IF sorted = << >> THEN << x >>
    ELSE IF KeyLess(x, sorted[1]) THEN << x >> \o sorted
    ELSE << sorted[1] >> \o InsertJob(Tail(sorted), x)

RECURSIVE SortJobs(_)
SortJobs(js) ==
    IF js = << >> THEN << >>
    ELSE InsertJob(SortJobs(SubSeq(js, 1, Len(js) - 1)), js[Len(js)])

\* the future of a job that has been submitted and not started
Queued ==
    [pc |-> "queued", rc |-> -1, wrote |-> FALSE, renamed |-> FALSE,
     result |-> "none", starts |-> 0, before |-> Absent]

\* lines 324-326: nothing to do
ScanEmpty ==
    /\ phase = "scan"
    /\ toScan = {}
    /\ archives = << >>
    /\ phase' = "end"
    /\ UNCHANGED << inputFiles, disk, run, maxWorkers, scanVars, exec, collected,
                    failed, cleanupPos, prevAllOk, call >>

\* mutant: the temp directories are created while the listing is printed
ScanDoneCreatesTmp ==
    /\ phase = "scan"
    /\ toScan = {}
    /\ archives # << >>
    /\ archives' = SortJobs(archives)
    /\ phase' = "confirm"
    /\ disk' = MakeDirs(disk, tmp_extract_dir(archives[1].dir))
    /\ UNCHANGED << inputFiles, run, maxWorkers, toScan, processed, skipped,
                    ignored_files, volume_counts, exec, collected, failed,
                    cleanupPos, prevAllOk, call >>

\* lines 328-392: the listing, sorted, and the statistics
ScanDone ==
    /\ phase = "scan"
    /\ toScan = {}
    /\ archives # << >>
    /\ archives' = SortJobs(archives)
    /\ phase' = "confirm"
    /\ UNCHANGED << inputFiles, disk, run, maxWorkers, toScan, processed, skipped,
                    ignored_files, volume_counts, exec, collected, failed,
                    cleanupPos, prevAllOk, call >>

----------------------------------------------------------------------------
(* main: the confirmation prompt, lines 397-398, and the submission of every
   job to the pool, lines 424-429 *)

ConfirmYes ==
    /\ phase = "confirm"
    /\ phase' = "execute"
    /\ exec' = [j \in Jobs |-> Queued]
    /\ collected' = {}
    /\ failed' = << >>
    /\ UNCHANGED << inputFiles, disk, run, maxWorkers, scanVars, cleanupPos,
                    prevAllOk, call >>

ConfirmNo ==
    /\ phase = "confirm"
    /\ phase' = "end"
    /\ UNCHANGED << inputFiles, disk, run, maxWorkers, scanVars, exec, collected,
                    failed, cleanupPos, prevAllOk, call >>

----------------------------------------------------------------------------
(* The worker pool: ThreadPoolExecutor(max_workers), lines 424-429 *)

Running(j) == exec[j].pc \notin {"queued", "done"}

RunningJobs == {j \in DOMAIN exec : Running(j)}

\* mutant: the pool starts a thread for every work item
WorkerAlwaysFree == TRUE

\* mutant: the worker that ran a failed job is not given another work item
WorkerLostOnFailure ==
    Cardinality({j \in Jobs : exec[j].pc \notin {"queued", "done"}})
        + Cardinality({j \in Jobs : exec[j].result = "fail"}) < maxWorkers

\* a worker is free to take the next work item
WorkerFree == Cardinality(RunningJobs) < maxWorkers

\* the work queue is first in, first out: j is the oldest item not yet taken
NextInQueue(j) ==
    /\ exec[j].pc = "queued"
    /\ \A i \in 1..(j - 1) : exec[i].pc # "queued"

execFrame == << inputFiles, run, phase, maxWorkers, scanVars, collected, failed,
                cleanupPos, prevAllOk, call >>

\* what the tool writes into the temp directory is named by run and job
Tag(j) == [run |-> run, job |-> j]

\* mutant: the except clauses are missing and the error leaves the function
Propagate(j, ok) ==
    [exec EXCEPT ![j].pc = "done", ![j].result = IF ok THEN "ok" ELSE "raised"]

\* decompress_archive_with_7z returns, or its except clauses return False
Return(j, ok) ==
    [exec EXCEPT ![j].pc = "done", ![j].result = IF ok THEN "ok" ELSE "fail"]

\* a worker takes job j and enters decompress_archive_with_7z, lines 41-51
Dispatch(j) ==
    /\ phase = "execute"
    /\ NextInQueue(j)
    /\ WorkerFree
    /\ exec' = [exec EXCEPT ![j].pc = "chk_tmp",
                            ![j].starts = @ + 1,
                            ![j].before = disk[archives[j].dir]]
    /\ UNCHANGED disk
    /\ UNCHANGED execFrame

----------------------------------------------------------------------------
(* decompress_archive_with_7z, lines 51-111, one action per call that reads
   or writes the disk *)

\* line 53: if os.path.exists(tmp_extract_dir)
CheckTmp(j) ==
    /\ phase = "execute"
    /\ exec[j].pc = "chk_tmp"
    /\ exec' = [exec EXCEPT ![j].pc =
                    IF Exists(disk, tmp_extract_dir(archives[j].dir))
                    THEN "rm_tmp" ELSE "mk_tmp"]
    /\ UNCHANGED disk
    /\ UNCHANGED execFrame

\* line 54: shutil.rmtree(tmp_extract_dir); it raises when the directory is
\* gone by now, and the except clause returns False
RemoveTmp(j) ==
    /\ phase = "execute"
    /\ exec[j].pc = "rm_tmp"
    /\ LET tmp == tmp_extract_dir(archives[j].dir)
       IN  IF Exists(disk, tmp)
           THEN /\ disk' = RmTree(disk, tmp)
                /\ exec' = [exec EXCEPT ![j].pc = "mk_tmp"]
           ELSE /\ exec' = Return(j, FALSE)
                /\ UNCHANGED disk
    /\ UNCHANGED execFrame

\* line 55: os.makedirs(tmp_extract_dir, exist_ok=True)
MakeTmp(j) ==
    /\ phase = "execute"
    /\ exec[j].pc = "mk_tmp"
    /\ disk' = MakeDirs(disk, tmp_extract_dir(archives[j].dir))
    /\ exec' = [exec EXCEPT ![j].pc = "tool"]
    /\ UNCHANGED execFrame

\* line 72: the tool, while it runs, writes files into the temp directory
ToolWrite(j) ==
    /\ phase = "execute"
    /\ exec[j].pc = "tool"
    /\ ~exec[j].wrote
    /\ disk' = ToolOutput(disk, tmp_extract_dir(archives[j].dir), Tag(j))
    /\ exec' = [exec EXCEPT ![j].wrote = TRUE]
    /\ UNCHANGED execFrame

\* lines 72-74 and 95-104: the tool exits with code c; non-zero returns False
ToolExit(j, c) ==
    /\ phase = "execute"
    /\ exec[j].pc = "tool"
    /\ exec' = IF c = 0
               THEN [exec EXCEPT ![j].pc = "chk_dir", ![j].rc = c]
               ELSE [Return(j, FALSE) EXCEPT ![j].rc = c]
    /\ UNCHANGED disk
    /\ UNCHANGED execFrame

\* lines 72 and 106-111: subprocess.run raises (the command cannot be
\* started); the except clauses return False
ToolRaise(j) ==
    /\ phase = "execute"
    /\ exec[j].pc = "tool"
    /\ ~exec[j].wrote
    /\ exec' = Return(j, FALSE)
    /\ UNCHANGED disk
    /\ UNCHANGED execFrame

\* line 77: if os.path.exists(extract_dir)
CheckDir(j) ==
    /\ phase = "execute"
    /\ exec[j].pc = "chk_dir"
    /\ exec' = [exec EXCEPT ![j].pc =
                    IF Exists(disk, archives[j].dir) THEN "rm_dir" ELSE "rename"]
    /\ UNCHANGED disk
    /\ UNCHANGED execFrame

\* line 78: shutil.rmtree(extract_dir)
RemoveDir(j) ==
    /\ phase = "execute"
    /\ exec[j].pc = "rm_dir"
    /\ IF Exists(disk, archives[j].dir)
       THEN /\ disk' = RmTree(disk, archives[j].dir)
            /\ exec' = [exec EXCEPT ![j].pc = "rename"]
       ELSE /\ exec' = Return(j, FALSE)
            /\ UNCHANGED disk
    /\ UNCHANGED execFrame

\* line 81: os.rename(tmp_extract_dir, extract_dir)
RenameTmp(j) ==
    /\ phase = "execute"
    /\ exec[j].pc = "rename"
    /\ LET tmp == tmp_extract_dir(archives[j].dir)
       IN  IF CanRename(disk, tmp, archives[j].dir)
           THEN /\ disk' = Rename(disk, tmp, archives[j].dir)
                /\ exec' = [exec EXCEPT ![j].pc = "marker", ![j].renamed = TRUE]
           ELSE /\ exec' = Return(j, FALSE)
                /\ UNCHANGED disk
    /\ UNCHANGED execFrame

\* lines 84-94: write .zipp_done inside extract_dir and return True
WriteDone(j) ==
    /\ phase = "execute"
    /\ exec[j].pc = "marker"
    /\ IF Exists(disk, archives[j].dir)
       THEN /\ disk' = WriteMarker(disk, archives[j].dir)
            /\ exec' = Return(j, TRUE)
       ELSE /\ exec' = Return(j, FALSE)
            /\ UNCHANGED disk
    /\ UNCHANGED execFrame

----------------------------------------------------------------------------
(* main: collecting the outcomes, the report and the cleanup, lines 431-473 *)

\* mutant: a finished future is yielded again
CollectAgain(j) ==
    /\ phase = "execute"
    /\ exec[j].pc = "done"
    /\ collected' = collected \cup {j}
    /\ failed' = IF exec[j].result = "ok" THEN failed ELSE Append(failed, j)
    /\ UNCHANGED << inputFiles, disk, run, phase, maxWorkers, scanVars, exec,
                    cleanupPos, prevAllOk, call >>

\* lines 431-445: as_completed yields a finished future once
Collect(j) ==
    /\ phase = "execute"
    /\ exec[j].pc = "done"
    /\ j \notin collected
    /\ collected' = collected \cup {j}
    /\ failed' = IF exec[j].result = "ok" THEN failed ELSE Append(failed, j)
    /\ UNCHANGED << inputFiles, disk, run, phase, maxWorkers, scanVars, exec,
                    cleanupPos, prevAllOk, call >>

\* lines 447-461: every future has been yielded; the final report
Report ==
    /\ phase = "execute"
    /\ collected = Jobs
    /\ phase' = IF failed = << >> THEN "end" ELSE "ask_cleanup"
    /\ UNCHANGED << inputFiles, disk, run, maxWorkers, scanVars, exec, collected,
                    failed, cleanupPos, prevAllOk, call >>

\* line 464: the caller answers yes
CleanupYes ==
    /\ phase = "ask_cleanup"
    /\ phase' = "cleanup"
    /\ cleanupPos' = 1
    /\ UNCHANGED << inputFiles, disk, run, maxWorkers, scanVars, exec, collected,
                    failed, prevAllOk, call >>

\* line 464: the caller answers no
CleanupNo ==
    /\ phase = "ask_cleanup"
    /\ phase' = "end"
    /\ UNCHANGED << inputFiles, disk, run, maxWorkers, scanVars, exec, collected,
                    failed, cleanupPos, prevAllOk, call >>

\* the directory one iteration of the cleanup loop looks at, line 467
CleanupTarget(j) == tmp_extract_dir(archives[j].dir)

\* lines 466-473: one iteration of the loop over failed_archives
CleanupStep ==
    /\ phase = "cleanup"
    /\ cleanupPos <= Len(failed)
    /\ LET tmp_dir == CleanupTarget(failed[cleanupPos])
       IN  disk' = IF Exists(disk, tmp_dir) THEN RmTree(disk, tmp_dir) ELSE disk
    /\ cleanupPos' = cleanupPos + 1
    /\ phase' = IF cleanupPos = Len(failed) THEN "end" ELSE "cleanup"
    /\ UNCHANGED << inputFiles, run, maxWorkers, scanVars, exec, collected, failed,
                    prevAllOk, call >>

----------------------------------------------------------------------------
(* The process and its reruns *)

\* the process is killed: what it held in memory is gone, the disk stays
Interrupt ==
    /\ phase \notin {"end", "killed"}
    /\ phase' = "killed"
    /\ toScan' = {}
    /\ archives' = << >>
    /\ processed' = {}
    /\ skipped' = 0
    /\ ignored_files' = NoFn
    /\ volume_counts' = NoFn
    /\ exec' = << >>
    /\ collected' = {}
    /\ failed' = << >>
    /\ cleanupPos' = 0
    /\ UNCHANGED << inputFiles, disk, run, maxWorkers, prevAllOk, call >>

\* main() has returned after running every job it built, and none failed
RunAllOk ==
    /\ phase = "end"
    /\ archives # << >>
    /\ collected = Jobs
    /\ failed = << >>

\* main() is started again on the same directories, lines 212-248
NewRun ==
    /\ phase \in {"end", "killed"}
    /\ run < MaxRuns
    /\ run' = run + 1
    /\ phase' = "scan"
    /\ toScan' = inputFiles
    /\ archives' = << >>
    /\ processed' = {}
    /\ skipped' = 0
    /\ ignored_files' = NoFn
    /\ volume_counts' = NoFn
    /\ exec' = << >>
    /\ collected' = {}
    /\ failed' = << >>
    /\ cleanupPos' = 0
    /\ prevAllOk' = RunAllOk
    /\ UNCHANGED call
    /\ UNCHANGED << inputFiles, disk, maxWorkers >>

\* one run of main()
NextRun ==
    \/ \E f \in Catalogue : ScanFile(f)
    \/ ScanEmpty
    \/ ScanDone
    \/ ConfirmYes
    \/ ConfirmNo
    \/ \E j \in Jobs : Dispatch(j)
    \/ \E j \in Jobs : CheckTmp(j)
    \/ \E j \in Jobs : RemoveTmp(j)
    \/ \E j \in Jobs : MakeTmp(j)
    \/ \E j \in Jobs : ToolWrite(j)
    \/ \E j \in Jobs : \E c \in ExitCodes : ToolExit(j, c)
    \/ \E j \in Jobs : ToolRaise(j)
    \/ \E j \in Jobs : CheckDir(j)
    \/ \E j \in Jobs : RemoveDir(j)
    \/ \E j \in Jobs : RenameTmp(j)
    \/ \E j \in Jobs : WriteDone(j)
    \/ \E j \in Jobs : Collect(j)
    \/ Report
    \/ CleanupYes
    \/ CleanupNo
    \/ CleanupStep

\* runs of main() one after the other, each of which may be killed
Next ==
    \/ NextRun
    \/ Interrupt
    \/ NewRun

Spec == Init /\ [][Next]_vars

\* a single run of main() that is not killed
RunSpec == Init /\ [][NextRun]_vars

\* the threads of the pool and the main thread's loop over as_completed keep
\* taking steps; the prompts wait for the caller
PoolStep ==
    \/ \E j \in Jobs : Dispatch(j)
    \/ \E j \in Jobs : CheckTmp(j)
    \/ \E j \in Jobs : RemoveTmp(j)
    \/ \E j \in Jobs : MakeTmp(j)
    \/ \E j \in Jobs : \E c \in ExitCodes : ToolExit(j, c)
    \/ \E j \in Jobs : CheckDir(j)
    \/ \E j \in Jobs : RemoveDir(j)
    \/ \E j \in Jobs : RenameTmp(j)
    \/ \E j \in Jobs : WriteDone(j)
    \/ \E j \in Jobs : Collect(j)
    \/ Report

\* a single run in which every started tool invocation terminates and every
\* runnable thread is scheduled
FairRunSpec == RunSpec /\ WF_vars(PoolStep)

----------------------------------------------------------------------------
(* The Job Builder alone, on a directory and an output base directory that
   earlier runs may have left extraction directories in *)

\* what an earlier run wrote
OldTag == [run |-> 0, job |-> 1]

StaleDir == [exists |-> TRUE, files |-> {OldTag}, marker |-> FALSE]
CompleteDir == [exists |-> TRUE, files |-> {OldTag}, marker |-> TRUE]

ExtractLeaves == {ExtractNameOf[n] : n \in {c \in BuilderCatalogue : IsArchiveOf[c]}}

BuilderDisks ==
    {[p \in Leaves |->
          IF p = BaseDir THEN b
          ELSE IF p \in ExtractLeaves THEN f[p] ELSE Absent] :
        b \in {EmptyDir, CompleteDir},
        f \in [ExtractLeaves \ {BaseDir} -> {Absent, StaleDir, CompleteDir}]}

InitBuilder ==
    /\ inputFiles \in {fs \in SUBSET BuilderCatalogue : Cardinality(fs) <= MaxFiles}
    /\ disk \in BuilderDisks
    /\ run = 1
    /\ phase = "scan"
    /\ maxWorkers = 1
    /\ toScan = inputFiles
    /\ archives = << >>
    /\ processed = {}
    /\ skipped = 0
    /\ ignored_files = NoFn
    /\ volume_counts = NoFn
    /\ exec = << >>
    /\ collected = {}
    /\ failed = << >>
    /\ cleanupPos = 0
    /\ prevAllOk = FALSE
    /\ call = NoCall

NextBuilder ==
    \/ \E f \in BuilderCatalogue : ScanFile(f)
    \/ ScanEmpty
    \/ ScanDone

BuilderSpec == InitBuilder /\ [][NextBuilder]_vars

----------------------------------------------------------------------------
(* is_volume_part called on its own, on file names put together from a stem
   and suffixes of the kinds the four formats look for *)

\* most suffixes after the stem of a name given to is_volume_part
MaxSegments == 2

Stems == { << >>, << "a" >>, << "A" >> }

Segments ==
    { S_zip, S_7z, S_rar,
      << ".", "0", "0", "1" >>, << ".", "0", "0", "2" >>,
      << ".", "z", "0", "1" >>, << ".", "z", "0", "2" >>, << ".", "Z", "0", "2" >>,
      << ".", "p", "a", "r", "t", "1" >>, << ".", "P", "a", "r", "t", "0", "2" >>,
      << ".", "R", "A", "R" >>, << ".", "1", "2" >>, << ".", "x" >>, << "b" >> }

\* the names made of a stem and at most n suffixes
RECURSIVE NamesUpTo(_)
NamesUpTo(n) ==
    IF n = 0 THEN Stems
    ELSE LET shorter == NamesUpTo(n - 1)
         IN  shorter \cup {x \o g : x \in shorter, g \in Segments}

\* a file name is not the empty string
ClassifierNames == NamesUpTo(MaxSegments) \ { << >> }

InitClassifier ==
    /\ call \in {[NoCall EXCEPT !.fn = "is_volume_part", !.filename = f] :
                    f \in ClassifierNames}
    /\ inputFiles = {}
    /\ disk = [p \in Leaves |-> IF p = BaseDir THEN EmptyDir ELSE Absent]
    /\ run = 1
    /\ phase = "call"
    /\ maxWorkers = 1
    /\ toScan = {}
    /\ archives = << >>
    /\ processed = {}
    /\ skipped = 0
    /\ ignored_files = NoFn
    /\ volume_counts = NoFn
    /\ exec = << >>
    /\ collected = {}
    /\ failed = << >>
    /\ cleanupPos = 0
    /\ prevAllOk = FALSE

runVars ==
    << inputFiles, disk, run, phase, maxWorkers, toScan, archives, processed,
       skipped, ignored_files, volume_counts, exec, collected, failed,
       cleanupPos, prevAllOk >>

\* lines 114-151: the call returns
CallIsVolumePart ==
    /\ call.fn = "is_volume_part"
    /\ ~call.returned
    /\ call' = [call EXCEPT !.returned = TRUE,
                            !.vol = is_volume_part(call.filename)]
    /\ UNCHANGED runVars

ClassifierSpec == InitClassifier /\ [][CallIsVolumePart]_vars

----------------------------------------------------------------------------
(* get_first_volume called on its own, on a member of a directory of volume
   files and plain archives *)

\* most files in the directory get_first_volume looks into
MaxDirectory == 3

ResolverSuffixes ==
    { S_zip, S_z01, S_001,
      << ".", "z", "0", "2" >>, << ".", "0", "0", "2" >>,
      S_7z \o S_001, S_7z \o << ".", "0", "0", "2" >>,
      S_part \o << "1" >> \o S_rar, S_part \o << "2" >> \o S_rar,
      S_part \o << "0", "1" >> \o S_rar, S_part \o << "0", "2" >> \o S_rar,
      S_part \o << "1" >> \o S_zip, S_part \o << "2" >> \o S_zip,
      S_part \o << "2" >> \o << ".", "z", "0", "2" >> }

ResolverNames == {st \o sf : st \in {<< "a" >>, << "A" >>}, sf \in ResolverSuffixes}

\* the sets of at most n of the names S
RECURSIVE DirectoriesUpTo(_, _)
DirectoriesUpTo(S, n) ==
    IF n = 0 THEN { {} }
    ELSE LET smaller == DirectoriesUpTo(S, n - 1)
         IN  smaller \cup {d \cup {x} : d \in smaller, x \in S}

\* filename is an entry of target_directory
InitResolver ==
    /\ call \in {[NoCall EXCEPT !.fn = "get_first_volume",
                                !.filename = f, !.files = fs \cup {f}] :
                    f \in ResolverNames,
                    fs \in DirectoriesUpTo(ResolverNames, MaxDirectory - 1)}
    /\ inputFiles = {}
    /\ disk = [p \in Leaves |-> IF p = BaseDir THEN EmptyDir ELSE Absent]
    /\ run = 1
    /\ phase = "call"
    /\ maxWorkers = 1
    /\ toScan = {}
    /\ archives = << >>
    /\ processed = {}
    /\ skipped = 0
    /\ ignored_files = NoFn
    /\ volume_counts = NoFn
    /\ exec = << >>
    /\ collected = {}
    /\ failed = << >>
    /\ cleanupPos = 0
    /\ prevAllOk = FALSE

\* lines 154-209: the call returns
CallGetFirstVolume ==
    /\ call.fn = "get_first_volume"
    /\ ~call.returned
    /\ call' = [call EXCEPT !.returned = TRUE,
                            !.path = get_first_volume(call.filename, call.files)]
    /\ UNCHANGED runVars

ResolverSpec == InitResolver /\ [][CallGetFirstVolume]_vars

----------------------------------------------------------------------------
(* Claims *)

JobsWithBase(b) == {j \in Jobs : archives[j].base = b}

\* the archive candidates of the input directory that classify to base b
Members(b) == {f \in inputFiles : IsArchiveOf[f] /\ VolumeOf[f].base = b}

\* the extraction directory the builder computes for the member f
DirOf(f) == NewJob(f, inputFiles).dir

Range(q) == {q[i] : i \in DOMAIN q}

Started == exec # << >>

\* C1: in every reachable state, .zipp_done exists inside a job's extract_dir
\* only if the tool exited with code 0 for that job and that job's temp
\* directory has been renamed to extract_dir.
C1_MarkerOnlyAfterOwnCommit ==
    \A j \in Jobs :
        MarkerExists(disk, archives[j].dir) =>
            /\ Started
            /\ exec[j].rc = 0
            /\ exec[j].renamed

\* C2: once the tool has exited non-zero for a job, that job's extract_dir
\* is exactly as it was when the job started, and holds no marker that was
\* not there before.
C2_FailedJobLeavesDirAlone ==
    \A j \in DOMAIN exec :
        exec[j].rc > 0 => disk[archives[j].dir] = exec[j].before

\* C3: for any enumeration order, archives_to_process holds at most one job
\* per base name; when the scan is over a group of N members has exactly one
\* job, or none when the extract_dir of the group holds the marker.
C3_OneJobPerBaseName ==
    /\ \A i, j \in Jobs : i # j => archives[i].base # archives[j].base
    /\ toScan = {} =>
          \A f \in inputFiles :
              IsArchiveOf[f] =>
                  LET b == VolumeOf[f].base
                      n == Cardinality(JobsWithBase(b))
                  IN  /\ n <= 1
                      /\ n = 0 => \E g \in Members(b) : MarkerExists(disk, DirOf(g))
                      /\ n = 1 => \E g \in Members(b) : ~MarkerExists(disk, DirOf(g))

\* C3 witness: the scan is over and a group of two member files has one job
C3_Witness ==
    /\ toScan = {}
    /\ \E b \in {VolumeOf[f].base : f \in inputFiles} :
          /\ Cardinality(Members(b)) >= 2
          /\ Cardinality(JobsWithBase(b)) = 1

\* C4: after a run that built jobs, ran them and saw every one succeed, the
\* Job Builder run again over the same input directory and output base
\* directory builds no job.
C4_RerunBuildsNothing == prevAllOk => archives = << >>

\* C5: at no point are more than max_workers jobs inside
\* decompress_archive_with_7z at the same time.
C5_AtMostWRunning == Cardinality(RunningJobs) <= maxWorkers

\* C5 witness: the pool is full while a job is still waiting in the queue
C5_Witness ==
    /\ phase = "execute"
    /\ Cardinality(RunningJobs) = maxWorkers
    /\ \E j \in Jobs : exec[j].pc = "queued"

\* C6: every job is started at most once, each outcome is collected once,
\* and when the execute phase is over every job has run once and the jobs
\* that returned True plus the entries of failed_archives are the jobs built.
C6_EachJobOnce ==
    /\ \A j \in DOMAIN exec :
          /\ exec[j].starts <= 1
          /\ exec[j].pc # "queued" => exec[j].starts = 1
    /\ \A i, k \in DOMAIN failed : i # k => failed[i] # failed[k]
    /\ Range(failed) \subseteq collected
    /\ (Started /\ phase \in {"ask_cleanup", "cleanup", "end"}) =>
          /\ collected = Jobs
          /\ \A j \in Jobs : exec[j].starts = 1 /\ exec[j].pc = "done"
          /\ Cardinality({j \in Jobs : exec[j].result = "ok"}) + Len(failed)
                = Len(archives)

\* C6 witness: a run of two jobs is over, one succeeded and one failed
C6_Witness ==
    /\ phase = "end"
    /\ Started
    /\ Len(archives) = 2
    /\ \E i, k \in Jobs : exec[i].result = "ok" /\ exec[k].result = "fail"

\* C7: two distinct jobs of a run (distinct base names) have distinct
\* extract_dir paths and distinct temp directory paths, and no job's temp
\* directory is another job's extract_dir.
C7_DisjointDirectories ==
    \A i, j \in Jobs :
        (i # j /\ archives[i].base # archives[j].base) =>
            /\ archives[i].dir # archives[j].dir
            /\ tmp_extract_dir(archives[i].dir) # tmp_extract_dir(archives[j].dir)
            /\ tmp_extract_dir(archives[i].dir) # archives[j].dir

\* a step taken while main() scans or waits at the confirmation prompt
GateStep ==
    phase \in {"scan", "confirm"} =>
        /\ disk' = disk
        /\ \A j \in DOMAIN exec' : exec'[j].pc = "queued"
        /\ (phase' = "end" => Len(exec') = 0)

\* C8: while main() scans and waits for the confirmation no step changes the
\* disk and no worker is started; when the caller answers no the run is over
\* with the disk unchanged.
C8_NothingBeforeConfirmation == [][GateStep]_vars

\* C8 witness: the caller has answered no to a listing of two jobs
C8_Witness ==
    /\ phase = "end"
    /\ Len(archives) = 2
    /\ ~Started

\* C9: once the jobs are submitted the execute phase ends with every job
\* finished, whatever failed on the way, and failed_archives holds exactly
\* the jobs that failed.
C9_FailuresStayLocal ==
    (phase = "execute") ~>
        /\ phase # "execute"
        /\ Started
        /\ \A j \in Jobs : exec[j].pc = "done"
        /\ Range(failed) = {j \in Jobs : exec[j].result = "fail"}

\* C9 witness: the first job failed and the job submitted after it succeeded
C9_Witness ==
    /\ phase \in {"ask_cleanup", "end"}
    /\ Started
    /\ Len(archives) = 2
    /\ exec[1].result = "fail"
    /\ exec[2].result = "ok"

\* a step taken during the cleanup pass
SparingStep ==
    phase = "cleanup" =>
        /\ \A j \in Jobs :
              Exists(disk, archives[j].dir) => Exists(disk', archives[j].dir)
        /\ \A j \in Jobs \ Range(failed) :
              /\ disk'[archives[j].dir] = disk[archives[j].dir]
              /\ disk'[tmp_extract_dir(archives[j].dir)]
                    = disk[tmp_extract_dir(archives[j].dir)]

\* C10: no step of the cleanup pass deletes a directory that is the
\* extract_dir of a job of the run, and none changes a directory of a job
\* that succeeded.
C10_CleanupSparesExtractDirs == [][SparingStep]_vars

\* a hidden entry: its name starts with '.'
Hidden(f) == f # << >> /\ f[1] = "."

\* the entries visited by this step of the scan
Visited == toScan \ toScan'

HiddenStep ==
    \A f \in Visited : Hidden(f) => archives' = archives

\* C11: a step of the scan that visits a hidden file (a name starting with
\* '.'), whatever its extension or suffix, appends no job to
\* archives_to_process.
C11_HiddenFilesBuildNoJob == [][HiddenStep]_vars

\* the name ends in .zip, .7z or .rar, letter case ignored
EndsInArchiveExtension(f) ==
    \E k \in 1..3 : EndsWith(Lower(f), supported_extensions[k])

PlainStep ==
    \A f \in Visited :
        ~VolumeOf[f].isVol =>
            /\ archives' # archives => EndsInArchiveExtension(f)
            /\ ~EndsInArchiveExtension(f) =>
                  /\ archives' = archives
                  /\ ignored_files' = Bump(ignored_files, IgnoredExtOf[f])

\* C12: a step of the scan that visits a file matching none of the four
\* volume conventions appends a job only if the name ends in .zip, .7z or
\* .rar; for any other such name it appends nothing and counts the file in
\* ignored_files.
C12_PlainArchiveNeedsExtension == [][PlainStep]_vars

\* the digits that end f, and f without them
NumericTail(f) == Drop(f, Len(f) - TrailingDigits(f))
BeforeTail(f) == DropLast(f, TrailingDigits(f))

VolumeInfo(seq, name) == [isVol |-> TRUE, num |-> ToInt(seq), base |-> name]

\* convention 1: '.zip.', '.7z.' or '.rar.' followed by a purely numeric tail;
\* the base name is everything up through the format token
Convention1(f) ==
    /\ TrailingDigits(f) > 0
    /\ \E k \in 1..3 : EndsWith(Lower(BeforeTail(f)), dotted_extensions[k])

Documented1(f) == VolumeInfo(NumericTail(f), DropLast(BeforeTail(f), 1))

\* convention 2: <base>.part<digits>.<rar|zip|7z>, letter case ignored
Convention2With(f, ext) ==
    LET inner == DropLast(f, Len(ext))
    IN  /\ EndsWith(Lower(f), ext)
        /\ TrailingDigits(inner) > 0
        /\ EndsWith(Lower(BeforeTail(inner)), S_part)
        /\ Len(BeforeTail(inner)) > Len(S_part)

Convention2(f) == \E k \in 1..3 : Convention2With(f, supported_extensions[k])

Documented2(f) ==
    LET ext == supported_extensions[CHOOSE k \in 1..3 :
                                       Convention2With(f, supported_extensions[k])]
        inner == DropLast(f, Len(ext))
    IN  VolumeInfo(NumericTail(inner), DropLast(BeforeTail(inner), Len(S_part)))

\* convention 3: <base>.z<digits>
Convention3(f) ==
    /\ TrailingDigits(f) > 0
    /\ EndsWith(Lower(BeforeTail(f)), S_dotz)
    /\ Len(BeforeTail(f)) > Len(S_dotz)

Documented3(f) == VolumeInfo(NumericTail(f), DropLast(BeforeTail(f), Len(S_dotz)))

\* convention 4: the name ends in '.' and exactly three digits
Convention4(f) ==
    /\ Len(f) >= 4
    /\ f[Len(f) - 3] = "."
    /\ \A i \in (Len(f) - 2)..Len(f) : f[i] \in Digits

Documented4(f) == VolumeInfo(Drop(f, Len(f) - 3), DropLast(f, 4))

\* the documented classification: the first convention that matches
Documented(f) ==
    IF Convention1(f) THEN Documented1(f)
    ELSE IF Convention2(f) THEN Documented2(f)
    ELSE IF Convention3(f) THEN Documented3(f)
    ELSE IF Convention4(f) THEN Documented4(f)
    ELSE [isVol |-> FALSE, num |-> 0, base |-> f]

\* C13: is_volume_part returns the result of the first of the four
\* conventions, in priority order, that the file name matches: isVolume true,
\* the digits as an integer, and the documented prefix of the original name
\* in its original letter case; (false, 0, filename) when none matches.
C13_ClassifierAsDocumented ==
    call.fn = "is_volume_part" /\ call.returned =>
        call.vol = Documented(call.filename)

\* the convention the documented classification puts f under, 0 for none
ConventionOf(f) ==
    IF Convention1(f) THEN 1
    ELSE IF Convention2(f) THEN 2
    ELSE IF Convention3(f) THEN 3
    ELSE IF Convention4(f) THEN 4
    ELSE 0

\* g is a member of the volume group of f: same convention, same base name
\* and, for the part style, the same archive extension
SameGroup(f, g) ==
    /\ ConventionOf(f) # 0
    /\ ConventionOf(g) = ConventionOf(f)
    /\ Documented(g).base = Documented(f).base
    /\ ConventionOf(f) = 2 =>
          \E k \in 1..3 : /\ EndsWith(Lower(f), supported_extensions[k])
                          /\ EndsWith(Lower(g), supported_extensions[k])

\* the first-volume files of the group of f that are in the directory
FirstVolumes(f, files) ==
    {g \in files : SameGroup(f, g) /\ Documented(g).num = 1}

\* the bare .zip that may head a legacy zip-volume group
BareZip(f, files) ==
    IF ConventionOf(f) = 3
    THEN {g \in files : g = Documented(f).base \o S_zip}
    ELSE {}

Resolved == call.fn = "get_first_volume" /\ call.returned

\* C14: get_first_volume, given a member of a volume group, returns the
\* group's first-volume file whenever that file is in the directory, returns
\* the input unchanged when no first-volume candidate is there, returns a
\* first volume or a non-volume file unchanged, and resolving its own result
\* again changes nothing.
C14_ResolverFindsFirstVolume ==
    Resolved =>
        LET f == call.filename
            info == Documented(f)
        IN  /\ info.isVol /\ info.num # 1 /\ FirstVolumes(f, call.files) # {} =>
                  call.path \in FirstVolumes(f, call.files)
            /\ FirstVolumes(f, call.files) \cup BareZip(f, call.files) = {} =>
                  call.path = f
            /\ ~info.isVol \/ info.num = 1 => call.path = f
            /\ get_first_volume(call.path, call.files) = call.path

\* C15: for every job built, the leaf name of extract_dir is not the file
\* name of the job's source archive and is not empty, so that extract_dir is
\* neither the path of the source archive nor the output base directory.
C15_ExtractDirIsNotTheSource ==
    \A j \in Jobs :
        /\ archives[j].dir # archives[j].target
        /\ archives[j].dir # BaseDir

\* the temp directory of job j
TmpOf(j) == tmp_extract_dir(archives[j].dir)

\* the tool of job j has been started and has written nothing yet
ToolInvoked(j) == exec[j].pc = "tool" /\ ~exec[j].wrote

\* C16: whenever the external tool is invoked for a job, the job's temp
\* directory exists and is empty: no file of an earlier attempt, and of no
\* other origin, is in it.
C16_ToolStartsInEmptyTmp ==
    \A j \in DOMAIN exec : ToolInvoked(j) => disk[TmpOf(j)] = EmptyDir

\* job j returns True in this step
Succeeds(j) ==
    /\ j \in DOMAIN exec'
    /\ exec[j].result # "ok"
    /\ exec'[j].result = "ok"

\* what the tool of job j wrote during this attempt
WrittenBy(j) == IF exec[j].wrote THEN {Tag(j)} ELSE {}

ExactStep ==
    \A j \in DOMAIN exec :
        Succeeds(j) =>
            disk'[archives[j].dir] =
                [exists |-> TRUE, files |-> WrittenBy(j), marker |-> TRUE]

\* C17: when a job succeeds, its extract_dir holds exactly what the tool
\* wrote into the temp directory during this attempt, plus .zipp_done; no
\* file of an extract_dir that was there before is carried over.
C17_ExtractDirHoldsThisAttempt == [][ExactStep]_vars

\* the executor of job j has returned False on a non-zero exit code
FailedOnExitCode(e) == e.pc = "done" /\ e.result = "fail" /\ e.rc \notin {0, -1}

LeftStep ==
    \A j \in DOMAIN exec :
        \* the step that fails the job leaves the temp directory in place
        /\ j \in DOMAIN exec' /\ ~FailedOnExitCode(exec[j])
              /\ FailedOnExitCode(exec'[j]) =>
              /\ disk'[TmpOf(j)] = disk[TmpOf(j)]
              /\ disk[TmpOf(j)].exists
        \* and afterwards only the confirmed cleanup pass changes it
        /\ FailedOnExitCode(exec[j]) /\ disk'[TmpOf(j)] # disk[TmpOf(j)] =>
              phase = "cleanup"

\* C18: when a job fails on a non-zero exit code of the tool, the executor
\* leaves the job's temp directory on disk, and for the rest of the run the
\* directory is changed by nothing but the cleanup pass the caller has
\* confirmed.
C18_FailedTmpIsLeft == [][LeftStep]_vars

\* the archive candidates of the input directory
Candidates == {f \in inputFiles : IsArchiveOf[f]}

\* sourcePath and extractDir of the job the builder makes when it meets f
\* first among the members of its group
JobFor(f) ==
    [target |-> NewJob(f, inputFiles).target, dir |-> NewJob(f, inputFiles).dir]

\* the jobs and the skipped groups as the files and the markers alone give
\* them: one for every candidate, equal for the members of one group
JobsOfDirectory ==
    {JobFor(f) : f \in {c \in Candidates : ~MarkerExists(disk, DirOf(c))}}

SkippedOfDirectory ==
    {VolumeOf[f].base : f \in {c \in Candidates : MarkerExists(disk, DirOf(c))}}

\* C19: when the scan has visited every entry, the jobs built (sourcePath and
\* extractDir) and the number of archives skipped as complete are the ones
\* given by the files of the input directory and the markers on disk, in
\* whatever order the entries were visited: every member of a group gives
\* the job of the group, whose sourcePath is the group's first volume.
C19_JobsDoNotDependOnOrder ==
    phase \in {"scan", "confirm"} /\ toScan = {} =>
        /\ {[target |-> archives[j].target, dir |-> archives[j].dir] : j \in Jobs}
              = JobsOfDirectory
        /\ skipped = Cardinality(SkippedOfDirectory)

KeptStep ==
    \A p \in Leaves :
        MarkerExists(disk, p) => disk'[p] = disk[p]

\* C20: once a directory holds .zipp_done, whether it was there before the
\* run or was written during it, no step of an executor and no step of the
\* cleanup pass deletes the directory, replaces it or removes its marker.
C20_MarkedDirIsKept == [][KeptStep]_vars

\* every future has been yielded and the cleanup pass has not begun
AllJobsFinished ==
    /\ Started
    /\ phase \in {"execute", "ask_cleanup"}
    /\ collected = Jobs

\* C21: when all jobs have finished, every job that is not in
\* failed_archives has its extract_dir on disk with .zipp_done inside, and
\* its temp directory no longer exists.
C21_SucceededJobsAreCommitted ==
    AllJobsFinished =>
        \A j \in Jobs \ Range(failed) :
            /\ MarkerExists(disk, archives[j].dir)
            /\ ~Exists(disk, TmpOf(j))

\* the call job j is about to make raises: the directory to delete is gone,
\* the rename is refused, or the directory to write the marker into is gone
AboutToRaise(j) ==
    \/ exec[j].pc = "rm_tmp" /\ ~Exists(disk, TmpOf(j))
    \/ exec[j].pc = "rm_dir" /\ ~Exists(disk, archives[j].dir)
    \/ exec[j].pc = "rename" /\ ~CanRename(disk, TmpOf(j), archives[j].dir)
    \/ exec[j].pc = "marker" /\ ~Exists(disk, archives[j].dir)

\* job j takes a step of decompress_archive_with_7z
Steps(j) == j \in DOMAIN exec' /\ exec'[j] # exec[j]

CaughtStep ==
    \A j \in DOMAIN exec :
        Steps(j) =>
            \* an error becomes the result False
            /\ AboutToRaise(j) =>
                  exec'[j].pc = "done" /\ exec'[j].result = "fail"
            \* the call ends with True or False, nothing else
            /\ exec'[j].pc = "done" => exec'[j].result \in {"ok", "fail"}
            \* True is returned by the step that has written the marker
            /\ exec'[j].result = "ok" /\ exec[j].result # "ok" =>
                  /\ exec[j].pc = "marker"
                  /\ MarkerExists(disk', archives[j].dir)

\* C22: decompress_archive_with_7z never lets an exception out: an error
\* raised while the temp directory is prepared, the tool is started, the old
\* extract_dir is removed, the temp directory is renamed or the marker is
\* written ends the call with the result False, and the call returns True
\* only in the step that has written .zipp_done.
C22_ErrorsBecomeFalse == [][CaughtStep]_vars

\* C22 witness: in one run a call has returned False after the tool exited 0,
\* that is on an error raised in the commit, and a call has returned True
C22_Witness ==
    /\ Started
    /\ \E j \in Jobs : exec[j].result = "fail" /\ exec[j].rc = 0
    /\ \E j \in Jobs : exec[j].result = "ok"

====
